---- MODULE Spec2Model ----
(***************************************************************************)
(* A model of portfwd.c, the single-threaded TCP port forwarder.           *)
(*                                                                         *)
(* The program is one thread of control (main's while(1) poll_conn()), so  *)
(* the model is a sequential program with a program counter.  A step of    *)
(* the model is a stretch of code between two points at which the          *)
(* asynchronous termination handler (term_signal) could observe a          *)
(* different socket table or descriptor table.  The environment (peers,    *)
(* the kernel) chooses the results of select, accept, connect, recv and    *)
(* send.                                                                   *)
(*                                                                         *)
(* Payload bytes are opaque to the program, so every byte a peer produces  *)
(* is labelled with its identity <<slot, direction, index in the stream>>; *)
(* any loss, duplication, reordering or leak between connections shows up  *)
(* as a wrong label at the destination.  A backlog cell that is not part   *)
(* of the unsent region holds nothing the program may rely on; the model   *)
(* keeps Junk there, so that a read of such a cell shows up as well.       *)
(***************************************************************************)
EXTENDS Integers, Sequences, FiniteSets, TLC

(* ------------------------------ bounds -------------------------------- *)

\* max_connections: the configured capacity (portfwd.c:77, default 10).
max_connections == 2

\* BACKLOG_SIZE: capacity of one backlog buffer and of bounce's scratch
\* buffer (portfwd.c:60 sets 65530; scaled down).
BACKLOG_SIZE == 3

\* Number of payload bytes the program may have read, in all, from the
\* connections it holds.
MaxData == 3

(* ----------------------------- constants ------------------------------ *)

INVALID_SOCKET == -1

Slots == 0 .. (max_connections - 1)

Dir == {"IN", "OUT"}

\* Descriptors 0,1,2 are the standard streams.
Stdio == {0, 1, 2}

\* Largest descriptor number the process can hold at once: the standard
\* streams, sockin, and two per slot.
MaxFd == Cardinality(Stdio) + 2 * max_connections

Junk == <<0, "junk", 0>>

Byte(c, d, j) == <<c, d, j>>

NoSnap == <<>>

NoClient == "none"

VARIABLES
    \* globals of portfwd.c
    conn_in, conn_out, active_connections,
    backlog, backlog_size, backlog_pos,
    \* position in main/poll_conn/accept_incoming/bounce/kill_connection
    pc, i,
    \* locals of poll_conn
    r1_fd, w1_fd, r2_fd, w2_fd, max_fd,
    \* locals of accept_incoming
    incoming, outgoing, curr,
    \* argument of kill_connection and the place it returns to
    n, ret,
    \* arguments and locals of bounce
    dir, buf,
    \* the kernel: the process's open descriptors, the listen queue
    open, pendingq, acc,
    \* how the process ended
    status, err,
    \* history (not read by the program); dirty is the set of empty slots
    \* whose last connection was torn down with bytes in a backlog; worked
    \* tells whether an accept, a flush or a recv was made since the last
    \* return of the stage 2 select; readyR and readyW are the sockets that
    \* a select of this pass reported readable, writable, and that were not
    \* read, written since; fresh is the set of slots occupied or vacated
    \* in this pass
    nread, delivered, flushedNow, snap, ebadf, limit_hit, dirty, worked,
    readyR, readyW, fresh

tables == <<conn_in, conn_out, active_connections>>
backlogs == <<backlog, backlog_size, backlog_pos>>
fdsets == <<r1_fd, w1_fd, r2_fd, w2_fd, max_fd>>
alocals == <<incoming, outgoing, curr>>
klocals == <<n, ret>>
blocals == <<dir, buf>>
kernel == <<open, pendingq, acc>>
ending == <<status, err>>
ready == <<readyR, readyW, fresh>>
history == <<nread, delivered, flushedNow, snap, ebadf, limit_hit, dirty, worked,
             readyR, readyW, fresh>>

vars == <<tables, backlogs, pc, i, fdsets, alocals, klocals, blocals,
          kernel, ending, history>>

(* ------------------------------ helpers ------------------------------- *)

Min(a, b) == IF a < b THEN a ELSE b

SetMax(S) == IF S = {} THEN 0 ELSE CHOOSE x \in S : \A y \in S : y <= x

\* socket()/accept() return the lowest descriptor number not in use.
LowestFree(S) == CHOOSE f \in 0 .. (MaxFd + 2) : f \notin S /\ \A g \in 0 .. (f - 1) : g \in S

\* The listening socket: the first descriptor main creates.
sockin == LowestFree(Stdio)

\* (dir==IN) ? conn_in : conn_out
Conn(d) == IF d = "IN" THEN conn_in ELSE conn_out

\* The socket data of direction d comes from.
Src(d) == IF d = "IN" THEN conn_out ELSE conn_in

\* valid_socket's return value
valid_socket(k) == conn_in[k] # INVALID_SOCKET /\ conn_out[k] # INVALID_SOCKET

\* valid_socket's fatal branch
inconsistent(k) == (conn_in[k] = INVALID_SOCKET) # (conn_out[k] = INVALID_SOCKET)

\* The number of bytes read so far from the connections now held.
Received == LET RECURSIVE Sum(_)
                Sum(S) == IF S = {} THEN 0
                          ELSE LET p == CHOOSE q \in S : TRUE
                               IN nread[p[1]][p[2]] + Sum(S \ {p})
            IN Sum(Dir \X Slots)

\* What send() can return when handed len bytes.
SendResults(len) == {-1, 0} \cup (1 .. len)

\* What recv() can return: an error, end of stream, or some of what the
\* peer has produced.
RecvResults == {-1, 0} \cup (1 .. Min(BACKLOG_SIZE, MaxData - Received))

EmptyTable == [k \in Slots |-> INVALID_SOCKET]

ZeroPerDir == [d \in Dir |-> [k \in Slots |-> 0]]

(* -------------------------------- Init -------------------------------- *)

\* main, lines 608-679: the tables are allocated and cleared, the listening
\* socket is created, bound and listening.
Init ==
    /\ conn_in = EmptyTable
    /\ conn_out = EmptyTable
    /\ active_connections = 0
    /\ backlog = [d \in Dir |-> [k \in Slots |-> [c \in 0 .. (BACKLOG_SIZE - 1) |-> Junk]]]
    /\ backlog_size = ZeroPerDir
    /\ backlog_pos = ZeroPerDir
    /\ pc = "stage1"
    /\ i = 0
    /\ r1_fd = {} /\ w1_fd = {} /\ r2_fd = {} /\ w2_fd = {} /\ max_fd = 0
    /\ incoming = INVALID_SOCKET /\ outgoing = INVALID_SOCKET /\ curr = -1
    /\ n = -1 /\ ret = "none"
    /\ dir = "none" /\ buf = <<>>
    /\ open = Stdio \cup {sockin}
    /\ pendingq = <<>>
    /\ acc = NoClient
    /\ status = "running" /\ err = "none"
    /\ nread = ZeroPerDir
    /\ delivered = [d \in Dir |-> [k \in Slots |-> <<>>]]
    /\ flushedNow = {}
    /\ snap = NoSnap
    /\ ebadf = FALSE
    /\ limit_hit = FALSE
    /\ worked = TRUE
    /\ readyR = {} /\ readyW = {} /\ fresh = {}
    /\ dirty = {}

\* exit(): the process image is gone; what is kept is how it ended and which
\* descriptors the program itself had not closed.
Halt(st, e, left, bad) ==
    /\ pc' = "exit"
    /\ status' = st
    /\ err' = e
    /\ open' = left
    /\ ebadf' = bad
    /\ conn_in' = EmptyTable
    /\ conn_out' = EmptyTable
    /\ active_connections' = 0
    /\ backlog' = [d \in Dir |-> [k \in Slots |-> [c \in 0 .. (BACKLOG_SIZE - 1) |-> Junk]]]
    /\ backlog_size' = ZeroPerDir
    /\ backlog_pos' = ZeroPerDir
    /\ i' = 0
    /\ r1_fd' = {} /\ w1_fd' = {} /\ r2_fd' = {} /\ w2_fd' = {} /\ max_fd' = 0
    /\ incoming' = INVALID_SOCKET /\ outgoing' = INVALID_SOCKET /\ curr' = -1
    /\ n' = -1 /\ ret' = "none"
    /\ dir' = "none" /\ buf' = <<>>
    /\ pendingq' = <<>>
    /\ acc' = NoClient
    /\ nread' = ZeroPerDir
    /\ delivered' = [d \in Dir |-> [k \in Slots |-> <<>>]]
    /\ flushedNow' = {}
    /\ snap' = NoSnap
    /\ limit_hit' = limit_hit
    /\ worked' = TRUE
    /\ dirty' = {}
    /\ readyR' = {} /\ readyW' = {} /\ fresh' = {}

\* ERR(...): print the message and exit(EXIT_FAILURE).
error(msg) == Halt("failure", msg, open, ebadf)

(* ------------------------ poll_conn: the two polls -------------------- *)

\* The sockets of the occupied slots.
ConnFds == {conn_in[k] : k \in {s \in Slots : valid_socket(s)}}
             \cup {conn_out[k] : k \in {s \in Slots : valid_socket(s)}}

\* Every slot has both handles set.
Full == \A k \in Slots : valid_socket(k)

\* Stage 1, lines 391-422: every socket of an occupied slot is polled for
\* reading and writing with a zero timeout; the kernel answers with the
\* sockets that are ready now.
stage1 ==
    /\ pc = "stage1"
    /\ IF \E k \in Slots : inconsistent(k)
       THEN error("internal inconsistency")
       ELSE /\ \E r \in SUBSET ConnFds, w \in SUBSET ConnFds :
                  /\ r1_fd' = r /\ w1_fd' = w
                  /\ readyR' = r /\ readyW' = w
            /\ pc' = "stage2"
            /\ UNCHANGED <<tables, backlogs, i, r2_fd, w2_fd, max_fd, alocals,
                           klocals, blocals, kernel, ending, nread, delivered,
                           flushedNow, snap, ebadf, limit_hit, dirty, worked,
                           fresh>>

\* Faulty variant of ListenGate: the comparison is off by one.
ListenGateOffByOne == active_connections <= max_connections

\* lines 429-434: sockin is polled only if another connection can be taken.
ListenGate == active_connections < max_connections

\* Faulty variant of ListenInterest: sockin is always polled (the behaviour
\* before the change of 2001-09-15).
ListenAlways == {sockin}

ListenInterest == IF ListenGate THEN {sockin} ELSE {}

\* Faulty variant of ReadInterest: every socket of an occupied slot is polled
\* for reading.
ReadInterestAll == ConnFds

\* lines 443-451: a source is polled for reading if the socket its data goes
\* to was writable in stage 1 and has no backlog.
ReadInterest ==
    {Src(d)[k] : <<d, k>> \in {p \in Dir \X Slots :
        /\ valid_socket(p[2])
        /\ Conn(p[1])[p[2]] \in w1_fd
        /\ backlog_size[p[1]][p[2]] = 0}}

\* Faulty variant of WriteInterest: every socket of an occupied slot is polled
\* for writing.
WriteInterestAll == ConnFds

\* lines 439-441 and 453-458: a destination is polled for writing if it has
\* a backlog or its source was readable in stage 1.
WriteInterest ==
    {Conn(d)[k] : <<d, k>> \in {p \in Dir \X Slots :
        /\ valid_socket(p[2])
        /\ \/ backlog_size[p[1]][p[2]] # 0
           \/ Src(p[1])[p[2]] \in r1_fd}}

\* Stage 2, lines 424-461: build the interest sets of the blocking poll.
stage2 ==
    /\ pc = "stage2"
    /\ IF \E k \in Slots : inconsistent(k)
       THEN error("internal inconsistency")
       ELSE /\ r2_fd' = ListenInterest \cup ReadInterest
            /\ w2_fd' = WriteInterest
            /\ max_fd' = SetMax(ListenInterest \cup ConnFds)
            /\ pc' = "select"
            /\ UNCHANGED <<tables, backlogs, i, r1_fd, w1_fd, alocals,
                           klocals, blocals, kernel, ending, history>>

\* lines 482-487: the stage 1 results are merged into the stage 2 results.
\* (The fd_sets are locals that poll_conn clears at its next call; the model
\* empties the stage 1 sets once merged, and drops the bits of a slot once
\* the loop of lines 489-515 is done with the slot, as nothing reads them.)
Merged(second, first) == second \cup {f \in first : f <= max_fd}

\* lines 463-467: select with no timeout returns once at least one socket of
\* the interest sets is ready, and reports the ready ones.  Readiness is
\* level-triggered: nothing was read or written since stage 1, so a socket
\* found ready there and polled again is reported again; the listening
\* socket is readable exactly when a connection waits in its queue.
select2 ==
    /\ pc = "select"
    /\ \E r \in SUBSET r2_fd, w \in SUBSET w2_fd :
          /\ r \cup w # {}
          /\ (sockin \in r) <=> (sockin \in r2_fd /\ pendingq # <<>>)
          /\ (r1_fd \cap r2_fd) \subseteq r
          /\ (w1_fd \cap w2_fd) \subseteq w
          /\ readyR' = readyR \cup (r \ {sockin})
          /\ readyW' = readyW \cup w
          /\ IF sockin \in r
             THEN \* line 480: accept_incoming is called
                  /\ r2_fd' = r
                  /\ w2_fd' = w
                  /\ pc' = "a_accept"
                  /\ UNCHANGED <<r1_fd, w1_fd, max_fd, i>>
             ELSE \* lines 482-489: merge, enter the loop
                  /\ r2_fd' = Merged(r, r1_fd)
                  /\ w2_fd' = Merged(w, w1_fd)
                  /\ r1_fd' = {} /\ w1_fd' = {} /\ max_fd' = 0
                  /\ i' = 0
                  /\ pc' = "flush_in"
    /\ worked' = FALSE
    /\ UNCHANGED <<tables, backlogs, alocals, klocals, blocals, kernel, ending,
                   nread, delivered, flushedNow, snap, ebadf, limit_hit, dirty,
                   fresh>>

(* --------------------------- accept_incoming -------------------------- *)

\* Faulty variant of AfterAccept: the result of accept() is not checked.
AfterAcceptUnchecked(fd) == "a_enqueue"

\* lines 143-147: accept_incoming returns if accept() failed.
AfterAccept(fd) == IF fd < 0 THEN "merge" ELSE "a_enqueue"

\* lines 140-147, reached from line 480 when sockin is in r2_fd.
a_accept ==
    /\ pc = "a_accept"
    /\ \/ /\ pendingq # <<>>
          /\ incoming' = LowestFree(open)
          /\ open' = open \cup {LowestFree(open)}
          /\ acc' = Head(pendingq)
          /\ pendingq' = Tail(pendingq)
          /\ pc' = AfterAccept(LowestFree(open))
       \/ \* accept() < 0, the connection stays queued
          /\ pc' = AfterAccept(-1)
          /\ UNCHANGED <<incoming, open, acc, pendingq>>
       \/ \* accept() < 0, the connection is gone
          /\ pendingq # <<>>
          /\ pendingq' = Tail(pendingq)
          /\ pc' = AfterAccept(-1)
          /\ UNCHANGED <<incoming, open, acc>>
    /\ worked' = TRUE
    /\ UNCHANGED <<tables, backlogs, i, fdsets, outgoing, curr, klocals,
                   blocals, ending, nread, delivered, flushedNow, snap, ebadf,
                   limit_hit, dirty, ready>>

\* lines 166-169: the first slot with both handles empty, or -1.
FreeSlot ==
    IF \E k \in Slots : conn_in[k] = INVALID_SOCKET /\ conn_out[k] = INVALID_SOCKET
    THEN CHOOSE k \in Slots :
           /\ conn_in[k] = INVALID_SOCKET /\ conn_out[k] = INVALID_SOCKET
           /\ \A j \in 0 .. (k - 1) :
                ~(conn_in[j] = INVALID_SOCKET /\ conn_out[j] = INVALID_SOCKET)
    ELSE -1

\* lines 149-171: count the connection, refuse it over the limit, find a slot.
a_enqueue ==
    /\ pc = "a_enqueue"
    /\ IF active_connections + 1 > max_connections
       THEN /\ open' = open \ {incoming}
            /\ incoming' = INVALID_SOCKET
            /\ acc' = NoClient
            /\ limit_hit' = TRUE
            /\ pc' = "merge"
            /\ UNCHANGED <<tables, backlogs, i, fdsets, outgoing, curr, klocals,
                           blocals, pendingq, ending, nread, delivered,
                           flushedNow, snap, ebadf, dirty, worked, ready>>
       ELSE IF FreeSlot = -1
       THEN error("couldn't enqueue connection")
       ELSE /\ active_connections' = active_connections + 1
            /\ curr' = FreeSlot
            /\ pc' = "a_socket"
            /\ UNCHANGED <<conn_in, conn_out, backlogs, i, fdsets, incoming,
                           outgoing, klocals, blocals, kernel, ending, history>>

\* lines 173-176: create the outgoing socket.
a_socket ==
    /\ pc = "a_socket"
    /\ \/ /\ outgoing' = LowestFree(open)
          /\ open' = open \cup {LowestFree(open)}
          /\ pc' = "a_connect"
          /\ UNCHANGED <<tables, backlogs, i, fdsets, incoming, curr, klocals,
                         blocals, pendingq, acc, ending, history>>
       \/ error("problem creating outgoing socket")

\* line 184: connect() is called on the outgoing socket, which socket()
\* created in blocking mode and nothing made non-blocking: the call returns
\* only when the remote endpoint has answered or the attempt has timed out.
a_connect ==
    /\ pc = "a_connect"
    /\ pc' = "a_connecting"
    /\ UNCHANGED <<tables, backlogs, i, fdsets, alocals, klocals, blocals,
                   kernel, ending, history>>

\* lines 184-186: the remote endpoint answers (or the attempt times out) and
\* connect() returns.
connect_returns ==
    /\ pc = "a_connecting"
    /\ \/ /\ pc' = "a_setin"
          /\ UNCHANGED <<tables, backlogs, i, fdsets, alocals, klocals, blocals,
                         kernel, ending, history>>
       \/ error("problem connect()ing outgoing socket")

\* line 188
a_setin ==
    /\ pc = "a_setin"
    /\ conn_in' = [conn_in EXCEPT ![curr] = incoming]
    /\ pc' = "a_setout"
    /\ UNCHANGED <<conn_out, active_connections, backlogs, i, fdsets, alocals,
                   klocals, blocals, kernel, ending, history>>

\* lines 189-190: the slot is occupied; accept_incoming returns.
a_setout ==
    /\ pc = "a_setout"
    /\ conn_out' = [conn_out EXCEPT ![curr] = outgoing]
    /\ pc' = "merge"
    /\ incoming' = INVALID_SOCKET /\ outgoing' = INVALID_SOCKET /\ curr' = -1
    /\ acc' = NoClient
    /\ nread' = [d \in Dir |-> [nread[d] EXCEPT ![curr] = 0]]
    /\ delivered' = [d \in Dir |-> [delivered[d] EXCEPT ![curr] = <<>>]]
    /\ dirty' = dirty \ {curr}
    /\ fresh' = fresh \cup {curr}
    /\ UNCHANGED <<conn_in, active_connections, backlogs, i, fdsets, klocals,
                   blocals, open, pendingq, ending, flushedNow, snap, ebadf,
                   limit_hit, worked, readyR, readyW>>

\* lines 482-489, after accept_incoming has returned.
merge ==
    /\ pc = "merge"
    /\ r2_fd' = Merged(r2_fd, r1_fd)
    /\ w2_fd' = Merged(w2_fd, w1_fd)
    /\ r1_fd' = {} /\ w1_fd' = {} /\ max_fd' = 0
    /\ i' = 0
    /\ pc' = "flush_in"
    /\ UNCHANGED <<tables, backlogs, alocals, klocals, blocals, kernel, ending,
                   history>>

(* ------------------------------ dispatch ------------------------------ *)

\* Where control goes after the code at label p: "loop_end" is the i++ of
\* the loop of lines 489-515, and leaving the loop returns from poll_conn
\* into main's while(1), which calls it again.
NextPc(p) == IF p # "loop_end" THEN p
             ELSE IF i + 1 < max_connections THEN "flush_in" ELSE "stage1"

NextI(p) == IF p # "loop_end" THEN i
            ELSE IF i + 1 < max_connections THEN i + 1 ELSE 0

\* The flushes recorded for the slot the loop is at.
NextFlushed(p, f) == IF p = "loop_end" THEN {} ELSE f

\* The bits of set that the loop can still read after label p.
NextBits(p, set) == IF p = "loop_end" THEN set \ {conn_in[i], conn_out[i]} ELSE set

\* The loop of lines 489-515 ends after label p: poll_conn returns.
PassEnds(p) == p = "loop_end" /\ i + 1 >= max_connections

\* What is left of the reports of this pass, and of its occupied or vacated
\* slots, after label p.
NextReady(p, set) == IF PassEnds(p) THEN {} ELSE NextBits(p, set)

NextFresh(p, f) == IF PassEnds(p) THEN {} ELSE f

\* What the tables looked like when kill_connection was called.
Snapshot == [conn_in |-> conn_in, conn_out |-> conn_out,
             active_connections |-> active_connections,
             backlog |-> backlog, backlog_size |-> backlog_size,
             backlog_pos |-> backlog_pos]

\* A call of kill_connection(k) from the code that continues at label r.
CallKill(k, r) ==
    /\ n' = k
    /\ ret' = r
    /\ snap' = Snapshot
    /\ pc' = "k_close_in"

\* The bits of set that the loop can still read once slot k is being killed.
KilledBits(k, set) == set \ {conn_in[k], conn_out[k]}

\* Faulty variant of FD_CLR: the bit stays set.
FD_CLR_Not(f, set) == set

\* FD_CLR
FD_CLR(f, set) == set \ {f}

\* backlog[n] + backlog_pos[n], for len bytes
Region(b, pos, len) ==
    [j \in 1 .. len |-> IF (pos + j - 1) \in DOMAIN b THEN b[pos + j - 1] ELSE Junk]

\* The cells pos .. pos+len-1 leave the unsent region.
Forget(b, pos, len) ==
    [c \in DOMAIN b |-> IF c >= pos /\ c < pos + len THEN Junk ELSE b[c]]

\* Faulty variant of FlushPos: the offset is not advanced.
FlushPosStuck(pos, left, sent) == IF left = 0 THEN 0 ELSE pos

\* Faulty variant of FlushPos: the offset is not reset when the backlog is
\* drained.
FlushPosNoReset(pos, left, sent) == pos + sent

\* lines 260-265: the offset after sent bytes of the backlog were sent and
\* left bytes remain.
FlushPos(pos, left, sent) == IF left = 0 THEN 0 ELSE pos + sent

AfterFlush(d) == IF d = "IN" THEN "flush_out" ELSE "bounce_out"

\* lines 495-496 / 501-502: FD_CLR, then flush_backlog(k, d), lines 234-266,
\* when its send() returned sent.
flush_backlog(k, d, sent) ==
    IF sent < 1
    THEN /\ CallKill(k, AfterFlush(d))
         /\ r2_fd' = KilledBits(k, r2_fd)
         /\ w2_fd' = KilledBits(k, w2_fd)
         /\ flushedNow' = flushedNow \cup {<<k, d>>}
         /\ worked' = TRUE
         /\ readyR' = KilledBits(k, readyR)
         /\ readyW' = KilledBits(k, readyW)
         /\ UNCHANGED <<tables, backlogs, i, r1_fd, w1_fd, max_fd, alocals,
                        blocals, kernel, ending, nread, delivered, ebadf,
                        limit_hit, dirty, fresh>>
    ELSE /\ backlog_size' = [backlog_size EXCEPT ![d][k] = @ - sent]
         /\ backlog' = [backlog EXCEPT ![d][k] = Forget(@, backlog_pos[d][k], sent)]
         /\ backlog_pos' = [backlog_pos EXCEPT
                              ![d][k] = FlushPos(@, backlog_size[d][k] - sent, sent)]
         /\ delivered' = [delivered EXCEPT
                              ![d][k] = @ \o Region(backlog[d][k], backlog_pos[d][k], sent)]
         /\ flushedNow' = flushedNow \cup {<<k, d>>}
         /\ w2_fd' = FD_CLR(Conn(d)[k], w2_fd)
         /\ pc' = AfterFlush(d)
         /\ worked' = TRUE
         /\ readyW' = readyW \ {Conn(d)[k]}
         /\ UNCHANGED <<tables, i, r1_fd, w1_fd, r2_fd, max_fd, alocals,
                        klocals, blocals, kernel, ending, nread, snap, ebadf,
                        limit_hit, dirty, readyR, fresh>>

\* lines 491-503: flush the backlog of direction d of slot i if its socket
\* is writable.
flush(d) ==
    /\ pc = (IF d = "IN" THEN "flush_in" ELSE "flush_out")
    /\ IF /\ Conn(d)[i] # INVALID_SOCKET
          /\ backlog_size[d][i] # 0
          /\ Conn(d)[i] \in w2_fd
       THEN \E sent \in SendResults(backlog_size[d][i]) : flush_backlog(i, d, sent)
       ELSE /\ pc' = AfterFlush(d)
            /\ UNCHANGED <<tables, backlogs, i, fdsets, alocals, klocals, blocals,
                           kernel, ending, history>>

AfterBounce(d) == IF d = "OUT" THEN "bounce_in" ELSE "loop_end"

\* lines 505-514 and bounce lines 270-293: if slot i is occupied, the source
\* of direction d is readable and its destination writable, bounce is called
\* and reads from the source.
bounce_recv(d) ==
    /\ pc = (IF d = "OUT" THEN "bounce_out" ELSE "bounce_in")
    /\ IF inconsistent(i)
       THEN error("internal inconsistency")
       ELSE IF valid_socket(i) /\ Src(d)[i] \in r2_fd /\ Conn(d)[i] \in w2_fd
       THEN \E recvd \in RecvResults :
              IF recvd < 1
              THEN /\ CallKill(i, AfterBounce(d))
                   /\ r2_fd' = KilledBits(i, r2_fd)
                   /\ w2_fd' = KilledBits(i, w2_fd)
                   /\ UNCHANGED <<tables, backlogs, i, r1_fd, w1_fd, max_fd,
                                  alocals, blocals, kernel, ending, nread,
                                  delivered, flushedNow, ebadf, limit_hit,
                                  dirty, fresh>>
                   /\ worked' = TRUE
                   /\ readyR' = KilledBits(i, readyR)
                   /\ readyW' = KilledBits(i, readyW)
              ELSE /\ buf' = [j \in 1 .. recvd |-> Byte(i, d, nread[d][i] + j)]
                   /\ dir' = d
                   /\ nread' = [nread EXCEPT ![d][i] = @ + recvd]
                   /\ pc' = "send"
                   /\ UNCHANGED <<tables, backlogs, i, fdsets, alocals, klocals,
                                  kernel, ending, delivered, flushedNow, snap,
                                  ebadf, limit_hit, dirty, readyW, fresh>>
                   /\ worked' = TRUE
                   /\ readyR' = readyR \ {Src(d)[i]}
       ELSE /\ pc' = NextPc(AfterBounce(d))
            /\ i' = NextI(AfterBounce(d))
            /\ flushedNow' = NextFlushed(AfterBounce(d), flushedNow)
            /\ r2_fd' = NextBits(AfterBounce(d), r2_fd)
            /\ w2_fd' = NextBits(AfterBounce(d), w2_fd)
            /\ readyR' = NextReady(AfterBounce(d), readyR)
            /\ readyW' = NextReady(AfterBounce(d), readyW)
            /\ fresh' = NextFresh(AfterBounce(d), fresh)
            /\ UNCHANGED <<tables, backlogs, r1_fd, w1_fd, max_fd, alocals,
                           klocals, blocals,
                           kernel, ending, nread, delivered, snap, ebadf,
                           limit_hit, dirty, worked>>

\* Faulty variant of Unsent: buf is handed over instead of buf+sent.
UnsentFromStart(b, sent) == SubSeq(b, 1, Len(b) - sent)

\* line 308: the part of buf that bounce hands to add_backlog, buf+sent for
\* recvd-sent bytes.
Unsent(b, sent) == SubSeq(b, sent + 1, Len(b))

\* line 219: add_backlog's capacity check
Overflow(k, d, len) == backlog_pos[d][k] + backlog_size[d][k] + len > BACKLOG_SIZE

\* lines 223-224: memcpy(backlog[n] + backlog_pos[n] + backlog_size[n], buf, bufsize)
Copied(b, at, bytes) ==
    [c \in DOMAIN b |->
        IF c >= at /\ c < at + Len(bytes) THEN bytes[c - at + 1] ELSE b[c]]

\* bounce lines 295-309, with add_backlog lines 212-230: send what was read;
\* what send() did not take is appended to the backlog.
bounce_send ==
    /\ pc = "send"
    /\ \E sent \in SendResults(Len(buf)) :
         IF sent < 1
         THEN /\ CallKill(i, AfterBounce(dir))
              /\ r2_fd' = KilledBits(i, r2_fd)
              /\ w2_fd' = KilledBits(i, w2_fd)
              /\ dir' = "none" /\ buf' = <<>>
              /\ readyR' = KilledBits(i, readyR)
              /\ readyW' = KilledBits(i, readyW)
              /\ UNCHANGED <<tables, backlogs, i, r1_fd, w1_fd, max_fd, alocals,
                             kernel, ending, nread, delivered, flushedNow,
                             ebadf, limit_hit, dirty, worked, fresh>>
         ELSE IF sent < Len(buf) /\ Overflow(i, dir, Len(buf) - sent)
         THEN error("Backlog exceeded")
         ELSE /\ delivered' = [delivered EXCEPT ![dir][i] = @ \o SubSeq(buf, 1, sent)]
              /\ IF sent < Len(buf)
                 THEN /\ backlog' = [backlog EXCEPT ![dir][i] =
                             Copied(@, backlog_pos[dir][i] + backlog_size[dir][i],
                                    Unsent(buf, sent))]
                      /\ backlog_size' = [backlog_size EXCEPT
                                             ![dir][i] = @ + (Len(buf) - sent)]
                 ELSE UNCHANGED <<backlog, backlog_size>>
              /\ dir' = "none" /\ buf' = <<>>
              /\ pc' = NextPc(AfterBounce(dir))
              /\ i' = NextI(AfterBounce(dir))
              /\ flushedNow' = NextFlushed(AfterBounce(dir), flushedNow)
              /\ r2_fd' = NextBits(AfterBounce(dir), r2_fd)
              /\ w2_fd' = NextBits(AfterBounce(dir), w2_fd)
              /\ readyR' = NextReady(AfterBounce(dir), readyR)
              /\ readyW' = NextReady(AfterBounce(dir), readyW \ {Conn(dir)[i]})
              /\ fresh' = NextFresh(AfterBounce(dir), fresh)
              /\ UNCHANGED <<tables, backlog_pos, r1_fd, w1_fd, max_fd, alocals,
                             klocals, kernel,
                             ending, nread, snap, ebadf, limit_hit, dirty, worked>>

(* --------------------------- kill_connection -------------------------- *)

\* closesocket(f): the descriptor leaves the process's table; closing one
\* that is not open is the EBADF error.
Closed(f) == open \ {f}

\* line 196
k_close_in ==
    /\ pc = "k_close_in"
    /\ open' = Closed(conn_in[n])
    /\ ebadf' = (ebadf \/ conn_in[n] \notin open)
    /\ pc' = "k_close_out"
    /\ UNCHANGED <<tables, backlogs, i, fdsets, alocals, klocals, blocals,
                   pendingq, acc, ending, nread, delivered, flushedNow, snap,
                   limit_hit, dirty, worked, ready>>

\* line 197
k_close_out ==
    /\ pc = "k_close_out"
    /\ open' = Closed(conn_out[n])
    /\ ebadf' = (ebadf \/ conn_out[n] \notin open)
    /\ pc' = "k_mark_in"
    /\ UNCHANGED <<tables, backlogs, i, fdsets, alocals, klocals, blocals,
                   pendingq, acc, ending, nread, delivered, flushedNow, snap,
                   limit_hit, dirty, worked, ready>>

\* Faulty variant of Reset: the counters are left as they are.
ResetNot(f, k) == f

\* Faulty variant of Reset: the counters of every slot are set to 0.
ResetAll(f, k) == [d \in Dir |-> [j \in Slots |-> 0]]

\* lines 198-199: the four counters of slot k are set to 0.
Reset(f, k) == [d \in Dir |-> [f[d] EXCEPT ![k] = 0]]

\* lines 201, 202
Vacate(tab, k) == [tab EXCEPT ![k] = INVALID_SOCKET]

\* Faulty variant of MarkOut: conn_out[k] keeps its handle.
MarkOutNot(k) == conn_out

\* line 202
MarkOut(k) == Vacate(conn_out, k)

\* Faulty variant of Released: the count is left as it is.
ReleasedNot(c) == c

\* line 204
Released(c) == c - 1

\* lines 198-201
k_mark_in ==
    /\ pc = "k_mark_in"
    /\ backlog_size' = Reset(backlog_size, n)
    /\ backlog_pos' = Reset(backlog_pos, n)
    /\ backlog' = [d \in Dir |-> [backlog[d] EXCEPT ![n] = Forget(@, 0, BACKLOG_SIZE)]]
    /\ conn_in' = Vacate(conn_in, n)
    /\ pc' = "k_mark_out"
    /\ UNCHANGED <<conn_out, active_connections, i, fdsets, alocals,
                   klocals, blocals, kernel, ending, history>>

\* lines 202-208: the slot is empty; kill_connection returns.
k_mark_out ==
    /\ pc = "k_mark_out"
    /\ conn_out' = MarkOut(n)
    /\ active_connections' = Released(active_connections)
    /\ pc' = NextPc(ret)
    /\ i' = NextI(ret)
    /\ flushedNow' = NextFlushed(ret, flushedNow)
    /\ n' = -1 /\ ret' = "none"
    /\ snap' = NoSnap
    /\ nread' = [d \in Dir |-> [nread[d] EXCEPT ![n] = 0]]
    /\ delivered' = [d \in Dir |-> [delivered[d] EXCEPT ![n] = <<>>]]
    /\ dirty' = IF \E d \in Dir : snap.backlog_size[d][n] > 0
                THEN dirty \cup {n} ELSE dirty \ {n}
    /\ readyR' = NextReady(ret, readyR)
    /\ readyW' = NextReady(ret, readyW)
    /\ fresh' = NextFresh(ret, fresh \cup {n})
    /\ UNCHANGED <<conn_in, backlogs, fdsets, alocals, blocals, kernel, ending,
                   ebadf, limit_hit, worked>>

(* ----------------------------- term_signal ---------------------------- *)

\* The descriptors term_signal closes, lines 329-347: every handle of the
\* tables that is not INVALID_SOCKET, and sockin.
HandlerCloses ==
    ({conn_in[k] : k \in Slots} \cup {conn_out[k] : k \in Slots} \cup {sockin})
        \ {INVALID_SOCKET}

\* lines 323-363: SIGTERM or SIGINT is delivered, at any point of the
\* program; the handler closes, frees and exits.
term_signal ==
    /\ pc # "exit"
    /\ Halt("success", "none", open \ HandlerCloses,
            ebadf \/ ~(HandlerCloses \subseteq open))

(* ----------------------------- environment ---------------------------- *)

\* A client completes a connection to the listening port; the kernel queues
\* it (listen(sockin, max_connections), line 678) until accept() takes it.
\* The entry records whether every slot was occupied when it arrived
\* ("late") or not ("early").
client_connects ==
    /\ pc # "exit"
    /\ Len(pendingq) < max_connections
    /\ pendingq' = Append(pendingq, IF Full THEN "late" ELSE "early")
    /\ UNCHANGED <<tables, backlogs, pc, i, fdsets, alocals, klocals, blocals,
                   open, acc, ending, history>>

(* ------------------------------- system ------------------------------- *)

\* The steps the program takes by itself.
ProgramNext ==
    \/ stage1 \/ stage2
    \/ a_accept \/ a_enqueue \/ a_socket \/ a_connect \/ a_setin \/ a_setout
    \/ merge
    \/ flush("IN") \/ flush("OUT")
    \/ bounce_recv("OUT") \/ bounce_send \/ bounce_recv("IN")
    \/ k_close_in \/ k_close_out \/ k_mark_in \/ k_mark_out

\* The steps that wait for somebody else: the return of the blocking select,
\* the return of connect(), the arrival of a client, the signal.
Next ==
    \/ ProgramNext
    \/ select2
    \/ connect_returns
    \/ client_connects
    \/ term_signal

Spec == Init /\ [][Next]_vars


(* ------------------------------ properties ---------------------------- *)

\* The first len bytes the source of direction d of slot k produces.
Stream(k, d, len) == [j \in 1 .. len |-> Byte(k, d, j)]

KillPcs == {"k_close_in", "k_close_out", "k_mark_in", "k_mark_out"}

Occupied == {k \in Slots : valid_socket(k)}

\* C1: for every slot and direction, the bytes that send() took on the
\* destination socket, from bounce and flush_backlog together, are a prefix
\* of the bytes recv() obtained from the source socket: nothing reordered,
\* duplicated, skipped or altered.
C1_BytesInOrder ==
    \A k \in Slots, d \in Dir :
        /\ Len(delivered[d][k]) <= nread[d][k]
        /\ delivered[d][k] = Stream(k, d, Len(delivered[d][k]))

\* C1 witness: a direction whose bytes went out partly by bounce and partly
\* by a partial flush, with a remainder still in the backlog.
C1_Witness ==
    \E k \in Slots, d \in Dir :
        /\ Len(delivered[d][k]) >= 2
        /\ backlog_pos[d][k] > 0
        /\ backlog_size[d][k] > 0

\* C2: wherever valid_socket inspects a slot, the slot's two handles are both
\* INVALID_SOCKET or both set, and the program never dies of "internal
\* inconsistency".
C2_SlotPairing ==
    /\ pc \in {"stage1", "stage2"} => \A k \in Slots : ~inconsistent(k)
    /\ pc \in {"bounce_out", "bounce_in"} => ~inconsistent(i)
    /\ err # "internal inconsistency"

\* C2 witness: the table is inspected with one slot occupied and the slot
\* before it vacated again.
C2_Witness ==
    /\ pc = "stage1"
    /\ \E k \in Slots : k > 0 /\ valid_socket(k) /\ ~valid_socket(k - 1)

\* C3: every backlog has 0 <= pos, 0 <= size, pos + size <= BACKLOG_SIZE, and
\* pos = 0 whenever size = 0.
C3_BacklogBounds ==
    \A k \in Slots, d \in Dir :
        /\ 0 <= backlog_pos[d][k]
        /\ 0 <= backlog_size[d][k]
        /\ backlog_pos[d][k] + backlog_size[d][k] <= BACKLOG_SIZE
        /\ backlog_size[d][k] = 0 => backlog_pos[d][k] = 0

\* C3 witness: a flush has just drained, to empty, the backlog of a slot
\* that stays occupied, and every byte read has gone out.
C3_Witness ==
    \E k \in Slots, d \in Dir :
        /\ <<k, d>> \in flushedNow
        /\ valid_socket(k)
        /\ pc \notin KillPcs
        /\ backlog_size[d][k] = 0
        /\ Len(delivered[d][k]) = MaxData

\* C4: sockin is in the stage 2 read set only if active_connections <
\* max_connections; accept_incoming runs only then, with a free slot, and a
\* slot is occupied only while fewer than max_connections are; neither the
\* "Maximum limit reached" branch nor "couldn't enqueue connection" is taken.
C4_AdmissionGated ==
    /\ (pc = "select" /\ sockin \in r2_fd) => active_connections < max_connections
    /\ pc \in {"a_accept", "a_enqueue"} =>
          /\ active_connections < max_connections
          /\ Cardinality(Occupied) < max_connections
    /\ pc \in {"a_socket", "a_connect", "a_connecting", "a_setin"} =>
          /\ Cardinality(Occupied) < max_connections
          /\ curr \in Slots
          /\ conn_in[curr] = INVALID_SOCKET /\ conn_out[curr] = INVALID_SOCKET
    /\ ~limit_hit
    /\ err # "couldn't enqueue connection"

\* C4 witness: the program waits in the stage 2 select at capacity while a
\* client is queued, and sockin is not polled.
C4_Witness ==
    /\ pc = "select"
    /\ Full
    /\ pendingq # <<>>
    /\ sockin \notin r2_fd

\* C5: bounce toward a destination is entered only when that direction's
\* backlog is empty and no flush to that destination was made in the same
\* pass over the slot.
C5_FlushBeforeRelay ==
    /\ pc = "send" => /\ backlog_size[dir][i] = 0
                      /\ <<i, dir>> \notin flushedNow
    /\ (pc \in KillPcs /\ ret = "bounce_in") =>
          /\ snap.backlog_size["OUT"][n] = 0
          /\ <<n, "OUT">> \notin flushedNow
    /\ (pc \in KillPcs /\ ret = "loop_end") =>
          /\ snap.backlog_size["IN"][n] = 0
          /\ <<n, "IN">> \notin flushedNow

\* C5 witness: the loop is at the relay check of a direction whose backlog
\* was flushed only partly in this pass, with the source readable.
C5_Witness ==
    /\ pc = "bounce_out"
    /\ valid_socket(i)
    /\ <<i, "OUT">> \in flushedNow
    /\ backlog_size["OUT"][i] > 0
    /\ conn_in[i] \in r2_fd

\* C6: when kill_connection(n) returns after a failed recv or send, exactly
\* slot n has been vacated (both handles closed and INVALID_SOCKET, both
\* backlogs at size 0 and pos 0, active_connections one less), the program
\* goes on with the loop, and every other slot has the handles, backlog
\* contents, sizes and offsets it had when the failure was met.
C6_FailureIsolation ==
    [][(pc = "k_mark_out" /\ pc' \notin {"k_mark_out", "exit"}) =>
          /\ conn_in' = [snap.conn_in EXCEPT ![n] = INVALID_SOCKET]
          /\ conn_out' = [snap.conn_out EXCEPT ![n] = INVALID_SOCKET]
          /\ snap.conn_in[n] \notin open' /\ snap.conn_out[n] \notin open'
          /\ \A k \in Slots \ {n} :
                valid_socket(k) => conn_in[k] \in open' /\ conn_out[k] \in open'
          /\ active_connections' = snap.active_connections - 1
          /\ \A d \in Dir :
                /\ backlog_size'[d][n] = 0 /\ backlog_pos'[d][n] = 0
                /\ \A k \in Slots \ {n} :
                      /\ backlog_size'[d][k] = snap.backlog_size[d][k]
                      /\ backlog_pos'[d][k] = snap.backlog_pos[d][k]
                      /\ backlog'[d][k] = snap.backlog[d][k]
          /\ pc' \in {"flush_in", "flush_out", "bounce_out", "bounce_in", "stage1"}
      ]_vars

\* C6 witness: a slot is being torn down while another slot is occupied and
\* holds a backlog.
C6_Witness ==
    /\ pc = "k_mark_out"
    /\ \E k \in Slots \ {n}, d \in Dir : valid_socket(k) /\ backlog_size[d][k] > 0

\* C7: after the termination handler has run and the process has exited with
\* success, no descriptor the process had accepted or created is left
\* unclosed by the handler.
C7_ShutdownClosesEverything ==
    (pc = "exit" /\ status = "success") => open \subseteq Stdio

\* C8 as stated: a connection attempted while every slot is occupied is
\* refused or closed at once: it is neither left pending in the listen queue
\* nor admitted later.
C8_RefusedAtCapacity ==
    /\ \A j \in 1 .. Len(pendingq) : pendingq[j] # "late"
    /\ acc # "late"

\* C8 as amended: while every slot is occupied, the program takes nothing
\* off the listen queue and closes no connection it has accepted: a client
\* that connects then stays queued, its arrival changes no slot, handle or
\* backlog, and a queued client is accepted only once a slot is free.
C8_LeftPendingAtCapacity ==
    [][/\ (Full /\ pc' # "exit") =>
             \/ pendingq' = pendingq
             \/ /\ Len(pendingq') = Len(pendingq) + 1
                /\ SubSeq(pendingq', 1, Len(pendingq)) = pendingq
                /\ UNCHANGED <<tables, backlogs, pc, i, fdsets>>
       /\ acc # NoClient => ~Full
       /\ ~limit_hit
      ]_vars

\* C8 witness: a client that connected while every slot was occupied is
\* being installed in a slot that was vacated since.
C8_Witness ==
    /\ pc = "a_setout"
    /\ acc = "late"

\* C9: when bounce read m bytes and send() took s of them, 0 < s < m, the
\* backlog of that slot and direction holds exactly buf[s..m) at offset 0,
\* size m - s; a flush that sends k bytes, 0 < k < size, advances the offset
\* by k and lowers the size by k and moves no byte; a flush that sends all
\* of it leaves size 0 and offset 0.
C9_PartialSend ==
    [][/\ (pc = "send" /\ pc' \notin {"send", "k_close_in", "exit"}) =>
             LET m == Len(buf)
                 s == Len(delivered'[dir][i]) - Len(delivered[dir][i])
             IN /\ 1 <= s /\ s <= m
                /\ s < m =>
                      /\ backlog_pos'[dir][i] = 0
                      /\ backlog_size'[dir][i] = m - s
                      /\ \A j \in 1 .. (m - s) : backlog'[dir][i][j - 1] = buf[s + j]
                /\ s = m =>
                      /\ backlog_pos'[dir][i] = 0
                      /\ backlog_size'[dir][i] = 0
       /\ \A d \in Dir :
             (/\ pc = (IF d = "IN" THEN "flush_in" ELSE "flush_out")
              /\ <<i, d>> \in flushedNow'
              /\ pc' \notin {"k_close_in", "exit"}) =>
             LET len == backlog_size[d][i]
                 pos == backlog_pos[d][i]
                 k == Len(delivered'[d][i]) - Len(delivered[d][i])
             IN /\ 1 <= k /\ k <= len
                /\ k < len =>
                      /\ backlog_pos'[d][i] = pos + k
                      /\ backlog_size'[d][i] = len - k
                      /\ \A c \in (pos + k) .. (pos + len - 1) :
                            backlog'[d][i][c] = backlog[d][i][c]
                /\ k = len =>
                      /\ backlog_pos'[d][i] = 0
                      /\ backlog_size'[d][i] = 0
      ]_vars

\* C9 witness: of BACKLOG_SIZE bytes read, one was sent and the rest
\* backlogged, and a flush has since sent one more: offset 1, one byte less.
C9_Witness ==
    \E k \in Slots, d \in Dir :
        /\ nread[d][k] = BACKLOG_SIZE
        /\ backlog_pos[d][k] = 1
        /\ backlog_size[d][k] = BACKLOG_SIZE - 2
        /\ backlog[d][k][1] = Byte(k, d, 3)

\* C10: outside the stage 2 select the program never waits for a peer: with
\* a slot occupied, it can always take its next step by itself.
C10_OnlyPhase2Blocks ==
    (pc \notin {"select", "exit"} /\ Occupied # {}) => ENABLED ProgramNext

\* C11: a failure of the outbound connect() in accept_incoming abandons only
\* that admission: the process does not end because of it, so the slots
\* already occupied keep their handles and backlogs and go on being relayed.
C11_ConnectFailureIsLocal ==
    ~(pc = "exit" /\ err = "problem connect()ing outgoing socket")

\* C12: in the interest sets handed to the stage 2 select, a socket is polled
\* for writing only if the backlog destined to it is not empty or its peer
\* was readable in stage 1; a socket is polled for reading only if its peer
\* was writable in stage 1 and the backlog toward that peer is empty; and no
\* socket other than sockin and the handles of occupied slots is polled.
C12_InterestRule ==
    pc = "select" =>
       /\ w2_fd \subseteq ConnFds
       /\ r2_fd \ {sockin} \subseteq ConnFds
       /\ \A k \in Occupied :
             /\ conn_in[k] \in w2_fd =>
                   backlog_size["IN"][k] > 0 \/ conn_out[k] \in r1_fd
             /\ conn_out[k] \in w2_fd =>
                   backlog_size["OUT"][k] > 0 \/ conn_in[k] \in r1_fd
             /\ conn_out[k] \in r2_fd =>
                   conn_in[k] \in w1_fd /\ backlog_size["IN"][k] = 0
             /\ conn_in[k] \in r2_fd =>
                   conn_out[k] \in w1_fd /\ backlog_size["OUT"][k] = 0

\* C12 witness: the select is entered with a slot whose client socket was
\* writable in stage 1 but has a backlog, so it is polled for writing and its
\* peer is not polled for reading, and whose other direction is not polled
\* for writing at all.
C12_Witness ==
    /\ pc = "select"
    /\ \E k \in Occupied :
          /\ conn_in[k] \in w1_fd
          /\ backlog_size["IN"][k] > 0
          /\ conn_in[k] \in w2_fd
          /\ conn_out[k] \notin r2_fd
          /\ conn_out[k] \notin w2_fd

\* C13: when accept() fails in accept_incoming, the function returns to
\* poll_conn, which goes on with its merge and loop, and active_connections,
\* every handle, every backlog and the process's descriptors are as before.
C13_AcceptFailureHarmless ==
    [][(/\ pc = "a_accept" /\ pc' \notin {"a_accept", "exit"}
        /\ incoming' = INVALID_SOCKET) =>
          /\ pc' = "merge"
          /\ UNCHANGED <<tables, backlogs, open>>
      ]_vars

\* C13 witness: accept_incoming has returned without admitting anybody (the
\* only occupied slot holds a backlog, which a slot just admitted cannot),
\* and poll_conn is about to merge and loop.
C13_Witness ==
    /\ pc = "merge"
    /\ sockin \in r2_fd
    /\ Cardinality(Occupied) = 1
    /\ \E k \in Occupied, d \in Dir : backlog_size[d][k] > 0

\* C14: a slot that is being occupied, from the moment accept_incoming has
\* chosen it to the moment both handles are stored, has size 0 and offset 0
\* in both backlogs, whatever its previous connection left behind; and the
\* bytes sent on the new connection are bytes read on it (C1_BytesInOrder).
C14_NewSlotEmpty ==
    pc \in {"a_socket", "a_connect", "a_connecting", "a_setin", "a_setout"} =>
       \A d \in Dir : backlog_size[d][curr] = 0 /\ backlog_pos[d][curr] = 0

\* C14 witness: the handles of a new connection are being stored in a slot
\* whose previous connection was torn down with unsent bytes in a backlog.
C14_Witness ==
    /\ pc = "a_setout"
    /\ curr \in dirty

\* C15: the program is never blocked in the stage 2 select while a direction
\* of an occupied slot could be relayed: for every occupied slot and
\* direction, the select was handed the source for reading or the
\* destination for writing, so that data arriving at the source with the
\* destination able to take it ends the wait even if nothing else happens.
C15_NoLostWakeup ==
    pc = "select" =>
       \A k \in Occupied, d \in Dir :
           Src(d)[k] \in r2_fd \/ Conn(d)[k] \in w2_fd

\* C16: whenever poll_conn returns, it has made an accept attempt, a backlog
\* flush or a relay recv since its stage 2 select returned: the select never
\* returns for nothing, so the loop cannot spin.
C16_NoBusySpin ==
    pc = "stage1" => worked

\* C16 witness: the loop is at its last check of the last slot, which finds
\* nothing to relay, and an operation was made earlier in this pass.
C16_Witness ==
    /\ pc = "bounce_in"
    /\ i = max_connections - 1
    /\ worked
    /\ Occupied = {i}
    /\ conn_out[i] \notin r2_fd

\* C17: outside accept_incoming and kill_connection, so at the start of
\* every pass and after each completed call of either, active_connections is
\* the number of slots with both handles set; it is always between 0 and
\* max_connections; and kill_connection is only ever called for a slot that
\* is occupied.
C17_CountConsistent ==
    /\ pc \in {"stage1", "stage2", "select", "a_accept", "a_enqueue", "merge",
               "flush_in", "flush_out", "bounce_out", "bounce_in", "send"} =>
          active_connections = Cardinality(Occupied)
    /\ 0 <= active_connections /\ active_connections <= max_connections
    /\ pc = "k_close_in" => valid_socket(n)

\* C17 witness: kill_connection has just returned from a failed flush of
\* slot i, and the other slot is still occupied.
C17_Witness ==
    /\ pc = "flush_out"
    /\ <<i, "IN">> \in flushedNow
    /\ ~valid_socket(i)
    /\ active_connections = 1

\* C18: when bounce is about to send what it read, and so whenever it calls
\* add_backlog, the backlog of that slot and direction has size 0 and offset
\* 0 and at most BACKLOG_SIZE bytes were read, of which send() takes at least
\* one; the "Backlog for connection exceeded" error never happens.
C18_NoOverflow ==
    /\ pc = "send" =>
          /\ backlog_size[dir][i] = 0
          /\ backlog_pos[dir][i] = 0
          /\ Len(buf) <= BACKLOG_SIZE
    /\ err # "Backlog exceeded"

\* C18 witness: add_backlog was called with the largest remainder there can
\* be, BACKLOG_SIZE - 1 bytes, and bounce has returned.
C18_Witness ==
    /\ pc # "send"
    /\ \E k \in Occupied, d \in Dir :
          /\ backlog_pos[d][k] = 0
          /\ backlog_size[d][k] = BACKLOG_SIZE - 1
          /\ Len(delivered[d][k]) = 1

\* C19: every recv is made on a socket that a select of this pass reported
\* readable and that was not read since, every send (by flush_backlog or by
\* bounce) on a socket that a select of this pass reported writable and that
\* was not written since, so a socket is written at most once and read at
\* most once in a pass; and never on a socket of a slot that was occupied or
\* vacated earlier in the pass.
C19_IoOnlyWhenReady ==
    [][/\ \A d \in Dir :
             (/\ pc = (IF d = "OUT" THEN "bounce_out" ELSE "bounce_in")
              /\ pc' \in {"send", "k_close_in"}) =>
                 Src(d)[i] \in readyR /\ i \notin fresh
       /\ \A d \in Dir :
             (/\ pc = (IF d = "IN" THEN "flush_in" ELSE "flush_out")
              /\ <<i, d>> \notin flushedNow
              /\ <<i, d>> \in flushedNow') =>
                 Conn(d)[i] \in readyW /\ i \notin fresh
       /\ (/\ pc = "send"
           /\ pc' # "send"
           /\ ~(pc' = "exit" /\ status' = "success")) =>
              Conn(dir)[i] \in readyW /\ i \notin fresh
      ]_vars

\* C19 witness: bounce has read from a socket and is about to send to its
\* peer, which was reported writable and not written since, in a pass in
\* which another slot was occupied or vacated.
C19_Witness ==
    /\ pc = "send"
    /\ fresh # {}
    /\ Src(dir)[i] \notin readyR
    /\ Conn(dir)[i] \in readyW
    /\ Conn(dir)[i] \in w2_fd

\* C20: no descriptor is closed twice: neither kill_connection nor the
\* termination handler ever calls closesocket on a handle that is no longer
\* open, whenever the signal arrives.
C20_NoDoubleClose ==
    ~ebadf

====
